---- MODULE Spec2Model ----
(***************************************************************************)
(* Model of the process supervisor of Mc_Multihost: one MinecraftServer    *)
(* instance (src/Classes/MinecraftServer.py), the part of the file system  *)
(* its start() reads and writes, the child processes it spawns, and two    *)
(* callers that invoke start / stop / send_command on the instance.        *)
(*                                                                         *)
(* The instance has no lock, so a call is modelled as the sequence of its  *)
(* accesses to the shared fields (self.proc, self.pid, self.log_path) and  *)
(* to the file system; steps of different callers interleave.              *)
(***************************************************************************)
EXTENDS Integers, Sequences, FiniteSets, TLC

\* ---- bounds ----------------------------------------------------------
MaxSpawn == 2      \* child processes the model lets Popen create
MaxCalls == 3      \* operations the callers invoke, and restarts, in total
MaxClock == 1      \* seconds the wall clock advances over a run
MaxFaults == 1     \* I/O and spawn faults the environment injects in a run
MaxRestarts == 1   \* restarts of the manager process
MaxEvents == 9     \* interactions the front end handles in a run
MaxEntries == 3    \* entries of the servers root
MaxFiles == 2      \* entries of versions/ and of an installation root
MaxMinor == 22     \* largest minor version number
MaxPatch == 6      \* largest patch version number
MaxHomes == 2      \* installed runtimes the scan finds
MaxLines == 3      \* lines of user_jvm_args.txt
MaxHeapArg == 2    \* largest heap size passed to the constructor
MaxMob == 3        \* pieces of the text entered as mob id

\* ---- values ----------------------------------------------------------
Callers == {"a", "b"}
NoProc == 0                    \* proc: Optional[Popen] = None
Fail == -1                     \* return -1
HeapVals == {-1, 0, 1, 2}      \* xmx / xms after __post_init__ (-1 = sentinel)
Children == 1..MaxSpawn        \* child k has process id k
ExtPid == MaxSpawn + 1         \* pid of a process this session did not spawn
NL == "\n"
StopCmd == <<"s", "t", "o", "p">>
UserCmds == {<<"k">>, <<"k", NL>>}
NoScript == ""
script_candidates_reversed == <<"start.sh", "startserver.sh", "serverstart.sh", "run.sh">>
script_candidates == <<"run.sh", "serverstart.sh", "startserver.sh", "start.sh">>
ScriptSets == {{}, {"start.sh"}, {"serverstart.sh", "start.sh"}}
NoPath == <<>>                 \* log_path: Optional[str] = None
DevNull == <<"devnull">>       \* subprocess.DEVNULL
NoFh == <<"nofh">>             \* log_fh not yet assigned
NoFile == <<"nofile">>         \* user_jvm_args.txt does not exist
JvmInit == {NoFile, <<<<"o", 0>>, <<"Xmx", 1>>>>}
NoInput == [op |-> "none"]
NoOutput == [kind |-> "none"]

VARIABLES
    xmx, xms,          \* self.xmx, self.xms
    pid,               \* self.pid
    proc,              \* self.proc: NoProc or the child the handle refers to
    logPath,           \* self.log_path
    hasJar,            \* os.path.isfile(<path>/server.jar)
    scripts,           \* launcher scripts present in <path>
    logDir,            \* <path>/bot-logs exists
    logFiles,          \* console-<timestamp>.log files that exist
    jvmArgs,           \* lines of <path>/user_jvm_args.txt, or NoFile
    clock,             \* the latest datetime.now() a start() has read, in seconds
    nspawn,            \* children created so far
    alive,             \* children that have not exited
    buf,               \* per child: text written to stdin, not yet flushed
    chan,              \* per child: text flushed into its stdin pipe
    rd,                \* per child: how much of chan it has read
    ext,               \* the process behind ExtPid: "dead", "ours", "foreign"
    pc, op, arg, ret,  \* per caller: position, operation, argument, result
    useJar, script, logFh,   \* per caller: locals of start()
    javaExe,           \* per caller: java_exe of start(), NoExe while not set
    spawned,           \* per caller: the child this call's Popen created
    wrote,             \* per caller: the writes this call made, <<child, text, state>>
                       \*   with state "buffered" until a flush moves the text into
                       \*   the child's pipe, then "piped"
    ncalls,            \* calls made so far
    nfaults,           \* faults injected so far
    restarts,          \* restarts of the manager process so far
    nprev,             \* children 1..nprev were spawned before the last restart
    \* the front end (DiscordBot/ServerManager.py), whose callbacks run one at
    \* a time on the event loop
    servers,           \* the shared instance list: name -> heap settings and
                       \*   whether is_running() holds
    views,             \* user -> the StartView last rendered for them
    last,              \* the last interaction: who, the reply, the number in
                       \*   it, the argument of the call
    nevents,           \* interactions so far
    \* the helpers that compute a result from what they find on the host
    \* (Utils/UtilsServer.py, Utils/McJava.py, the rewrite in start())
    uin,               \* the function applied and what it finds
    uout               \* what the call produced: a value or an exception

instVars == <<xmx, xms, pid, proc, logPath>>
fsVars == <<hasJar, scripts, logDir, logFiles, jvmArgs, clock>>
sessVars == <<restarts, nprev>>
osVars == <<nspawn, alive, buf, chan, rd, ext, nfaults, sessVars>>
callVars == <<pc, op, arg, ret, useJar, script, javaExe, logFh, spawned, wrote, ncalls>>
coreVars == <<instVars, fsVars, osVars, callVars>>
feVars == <<servers, views, last, nevents>>
utVars == <<uin, uout>>
vars == <<coreVars, feVars, utVars>>

\* ---- pure helpers ----------------------------------------------------

\* start(), line 80: the heap settings pass validation
ValidHeapNoXms(mx, ms) == ~(mx <= 0 \/ mx < ms)
ValidHeap(mx, ms) == ~(mx <= 0 \/ ms <= 0 \/ mx < ms)

\* start(), lines 97-104: first existing candidate in the fixed order
RECURSIVE FirstFrom(_, _)
FirstFrom(i, S) ==
    IF i > Len(script_candidates) THEN NoScript
    ELSE IF script_candidates[i] \in S THEN script_candidates[i]
    ELSE FirstFrom(i + 1, S)

FirstScriptDefault(S) == IF FirstFrom(1, S) = NoScript THEN "start.sh" ELSE FirstFrom(1, S)
FirstScript(S) == FirstFrom(1, S)

\* send_command(), line 229
NormalizeAlways(command) == command \o <<NL>>
Normalize(command) ==
    IF Len(command) > 0 /\ command[Len(command)] = NL THEN command
    ELSE command \o <<NL>>

StopLine == Normalize(StopCmd)

\* start(), lines 158-165: drop the heap lines, append the new ones
IsHeapLine(l) == l[1] \in {"Xmx", "Xms"}
RewriteJvmArgsAppendOnly(file, mx, ms) ==
    LET lines == IF file = NoFile THEN <<>> ELSE file
    IN  lines \o <<<<"Xmx", mx>>, <<"Xms", ms>>>>
RewriteJvmArgs(file, mx, ms) ==
    LET lines == IF file = NoFile THEN <<>> ELSE file
        kept == SelectSeq(lines, LAMBDA l : ~IsHeapLine(l))
    IN  kept \o <<<<"Xmx", mx>>, <<"Xms", ms>>>>

\* os.kill(pid, 0) in is_running(), lines 54-63
Probe(p) ==
    IF p \in Children THEN (IF p \in alive THEN "ok" ELSE "nosuch")
    ELSE IF p = ExtPid THEN
        (IF ext = "ours" THEN "ok" ELSE IF ext = "foreign" THEN "perm" ELSE "nosuch")
    ELSE "nosuch"

\* is_running(), lines 49-63
IsRunningInverted ==
    IF proc # NoProc THEN proc \notin alive
    ELSE IF pid <= 0 THEN FALSE
    ELSE Probe(pid) # "nosuch"
IsRunning ==
    IF proc # NoProc THEN proc \in alive
    ELSE IF pid <= 0 THEN FALSE
    ELSE Probe(pid) # "nosuch"

\* ---- the front end: values and pure helpers ---------------------------

\* The shared list built once by get_servers() (ServerManager.py line 38),
\* in the order of discovery, and the users who talk to the bot.
ServerNames == <<"alpha", "beta">>
Names == {ServerNames[i] : i \in DOMAIN ServerNames}
Users == {"u1", "u2"}
NoName == ""

total_gb == 32
default_reserve_gb == 6
Reserves == {6, 30}
base_values == <<1, 2, 4, 8, 16, 20>>
default_xms == 2
default_xmx == 4
\* of the offered values, those the modelled users pick
XmsPicks == {8}
XmxPicks == {8, 20}

Max2(a, b) == IF a >= b THEN a ELSE b
Min2(a, b) == IF a <= b THEN a ELSE b

\* UtilsServer.get_available_memory_gb, lines 41-68, over the list S
RECURSIVE running_xmx(_, _)
running_xmx(S, i) ==
    IF i > Len(ServerNames) THEN 0
    ELSE (IF S[ServerNames[i]].up THEN S[ServerNames[i]].xmx ELSE 0) + running_xmx(S, i + 1)
get_available_memory_gb_unfloored(S, reserve_gb) == total_gb - reserve_gb - running_xmx(S, 1)
get_available_memory_gb(S, reserve_gb) ==
    LET avail == total_gb - reserve_gb - running_xmx(S, 1)
    IN  IF avail > 0 THEN avail ELSE 0

\* XmxSelect.__init__, lines 670-676: the offered values and the default
XmxOptions(available_gb) ==
    {base_values[i] : i \in {j \in DOMAIN base_values : base_values[j] <= Max2(available_gb, 1)}}
RECURSIVE LastOption(_, _)
LastOption(available_gb, i) ==
    IF i = 0 THEN 1
    ELSE IF base_values[i] \in XmxOptions(available_gb) THEN base_values[i]
    ELSE LastOption(available_gb, i - 1)
default_choice(available_gb) == Min2(default_xmx, LastOption(available_gb, Len(base_values)))

\* StartView.__init__, lines 566-576
ClosedView ==
    [open |-> FALSE, servers_list |-> {}, available_gb |-> 0,
     selected_server_name |-> NoName, selected_xms |-> 0, selected_xmx |-> 0]
StartView(servers_list, available_gb) ==
    [open |-> TRUE, servers_list |-> servers_list, available_gb |-> available_gb,
     selected_server_name |-> NoName, selected_xms |-> default_xms,
     selected_xmx |-> default_choice(available_gb)]

\* The front end before any interaction: every instance as discovered
\* (UtilsServer.py lines 27-35: xmx 4, xms 2, nothing running).  Of an
\* instance, up says that the child of its handle is alive, and kids holds
\* the max heap each of its live children was launched with, in launch
\* order: the child of the handle is the last one while up holds.
FeInit ==
    /\ servers = [n \in Names |-> [xmx |-> 4, xms |-> 2, up |-> FALSE, kids |-> <<>>]]
    /\ views = [u \in Users |-> ClosedView]
    /\ last = [who |-> NoName, msg |-> "none", val |-> 0, arg |-> 0]
    /\ nevents = 0

\* ---- the runtime resolver: version detection (Utils/McJava.py) ---------

\* A version token as _VER_RE and the heuristics' patterns match it: the two
\* or three numbers of "1.20" or "1.20.0".  A name is modelled by the token
\* in it, NoTok when it holds none.
NoTok == <<>>
None == <<>>                   \* Python's None for an Optional[str] / tuple
Toks == {<<1, 20>>, <<1, 20, 0>>, <<1, 19, 2>>}
\* a directory or text file as the resolver finds it: its entries or lines,
\* or it does not exist, or listing / opening it raises
Found(items) == [st |-> "ok", items |-> items]
Absent == [st |-> "absent", items |-> <<>>]
Unreadable == [st |-> "unreadable", items |-> <<>>]

\* lines 13-24: the numbers of the token, patch 0 when the token has none
_parse_version_num(s) ==
    IF s = NoTok THEN None
    ELSE <<s[1], s[2], IF Len(s) = 3 THEN s[3] ELSE 0>>

\* lines 27-32
_fmt_mc_version(v) == IF v[3] # 0 THEN <<v[1], v[2], v[3]>> ELSE <<v[1], v[2]>>

\* entries of versions/: a plain file, a folder named by a version, folders
\* with another name that hold server-<ver>.jar, nothing, or cannot be listed
VersionEntries ==
    { [dir |-> FALSE, tok |-> <<1, 19, 2>>, inner |-> Found(<<>>)],
      [dir |-> TRUE, tok |-> <<1, 20, 0>>, inner |-> Found(<<>>)],
      [dir |-> TRUE, tok |-> NoTok, inner |-> Found(<<NoTok, <<1, 20, 0>>>>)],
      [dir |-> TRUE, tok |-> NoTok, inner |-> Found(<<>>)],
      [dir |-> TRUE, tok |-> NoTok, inner |-> Unreadable] }

\* files of the installation root: extension, which of the archive patterns
\* of lines 76-88 the name has, and the token in the name
RootFiles ==
    { [ext |-> "jar", pat |-> "minecraft_server", tok |-> <<1, 19, 2>>],
      [ext |-> "jar", pat |-> "forge", tok |-> <<1, 20, 0>>],
      [ext |-> "jar", pat |-> "fabric", tok |-> <<1, 20>>],
      [ext |-> "jar", pat |-> "none", tok |-> <<1, 20>>],
      [ext |-> "json", pat |-> "none", tok |-> <<1, 20, 0>>],
      [ext |-> "json", pat |-> "none", tok |-> NoTok] }
archive_patterns == {"minecraft_server", "forge", "paper", "fabric"}

\* logs/latest.log: the token of a "Starting minecraft server version" line,
\* NoTok for any other line
LatestLogs ==
    { Absent, Unreadable, Found(<<NoTok>>), Found(<<NoTok, <<1, 20, 0>>>>),
      Found(<<<<1, 19, 2>>, <<1, 20, 0>>>>) }

SeqsUpTo(S, n) == UNION {[1..k -> S] : k \in 0..n}
\* the path given to detect_mc_version: not a directory (line 47), or an
\* installation directory
NotADir == [isdir |-> FALSE, versions |-> Absent, root |-> Absent, log |-> Absent]
InstallDirs ==
    [isdir : {TRUE},
     versions : {Absent, Unreadable} \cup {Found(l) : l \in SeqsUpTo(VersionEntries, MaxFiles)},
     root : {Unreadable} \cup {Found(l) : l \in SeqsUpTo(RootFiles, MaxFiles)},
     log : LatestLogs]

\* lines 63-66: the first server-<ver>.jar of the folder, its token as matched
RECURSIVE ScanInner(_)
ScanInner(files) ==
    IF files = <<>> THEN None
    ELSE IF Head(files) # NoTok THEN Head(files)
    ELSE ScanInner(Tail(files))

\* lines 54-68: an exception anywhere in the loop ends the heuristic
RECURSIVE ScanVersions(_)
ScanVersions(entries) ==
    IF entries = <<>> THEN None
    ELSE LET entry == Head(entries)
             parsed == _parse_version_num(entry.tok)
         IN  IF ~entry.dir THEN ScanVersions(Tail(entries))
             ELSE IF parsed # None THEN _fmt_mc_version(parsed)
             ELSE IF entry.inner.st # "ok" THEN None
             ELSE IF ScanInner(entry.inner.items) # None THEN ScanInner(entry.inner.items)
             ELSE ScanVersions(Tail(entries))

\* lines 72-90: m.group(1) of the first archive whose name has a pattern
RECURSIVE ScanJars(_)
ScanJars(files) ==
    IF files = <<>> THEN None
    ELSE LET f == Head(files)
         IN  IF f.ext = "jar" /\ f.pat \in archive_patterns /\ f.tok # NoTok THEN f.tok
             ELSE ScanJars(Tail(files))

\* lines 96-101
RECURSIVE ScanJson(_)
ScanJson(files) ==
    IF files = <<>> THEN None
    ELSE LET f == Head(files)
             parsed == _parse_version_num(f.tok)
         IN  IF f.ext = "json" /\ parsed # None THEN _fmt_mc_version(parsed)
             ELSE ScanJson(Tail(files))

\* lines 110-113
RECURSIVE ScanLog(_)
ScanLog(lines) ==
    IF lines = <<>> THEN None
    ELSE IF Head(lines) # NoTok THEN Head(lines)
    ELSE ScanLog(Tail(lines))

\* a missing directory or file skips the heuristic (lines 52, 107), an
\* exception ends it (lines 67, 91, 102, 114)
FromVersions(inst) == IF inst.versions.st # "ok" THEN None ELSE ScanVersions(inst.versions.items)
FromJars(inst) == IF inst.root.st # "ok" THEN None ELSE ScanJars(inst.root.items)
FromJson(inst) == IF inst.root.st # "ok" THEN None ELSE ScanJson(inst.root.items)
FromLog(inst) == IF inst.log.st # "ok" THEN None ELSE ScanLog(inst.log.items)

\* lines 35-117
detect_mc_version_json_first(inst) ==
    IF ~inst.isdir THEN None
    ELSE IF FromVersions(inst) # None THEN FromVersions(inst)
    ELSE IF FromJson(inst) # None THEN FromJson(inst)
    ELSE IF FromJars(inst) # None THEN FromJars(inst)
    ELSE FromLog(inst)
detect_mc_version(inst) ==
    IF ~inst.isdir THEN None
    ELSE IF FromVersions(inst) # None THEN FromVersions(inst)
    ELSE IF FromJars(inst) # None THEN FromJars(inst)
    ELSE IF FromJson(inst) # None THEN FromJson(inst)
    ELSE FromLog(inst)

\* lines 120-143
java_major_for_mc_from_patch_4(mc_version) ==
    LET parsed == _parse_version_num(mc_version)
    IN  IF parsed = None THEN 17
        ELSE LET minor == parsed[2]
                 patch == parsed[3]
             IN  IF minor <= 16 THEN 8
                 ELSE IF minor = 17 THEN 16
                 ELSE IF minor = 20 /\ patch >= 4 THEN 21
                 ELSE IF minor >= 21 THEN 21
                 ELSE 17
java_major_for_mc(mc_version) ==
    LET parsed == _parse_version_num(mc_version)
    IN  IF parsed = None THEN 17
        ELSE LET minor == parsed[2]
                 patch == parsed[3]
             IN  IF minor <= 16 THEN 8
                 ELSE IF minor = 17 THEN 16
                 ELSE IF minor = 20 /\ patch >= 5 THEN 21
                 ELSE IF minor >= 21 THEN 21
                 ELSE 17

\* the version strings the mapping is applied to: "<major>.<minor>",
\* "<major>.<minor>.<patch>", and a string without a version token
VersionStrings ==
    {NoTok}
    \cup {<<a, m>> : a \in 1..2, m \in 0..MaxMinor}
    \cup {<<a, m, q>> : a \in 1..2, m \in 0..MaxMinor, q \in 0..MaxPatch}

\* ---- the runtime resolver: runtime discovery ---------------------------

\* A runtime version string ("1.8.0_402", "17.0.11", "21") is the sequence
\* of its leading numbers; NoVersion when there is none to read.
NoVersion == <<>>
NoMajor == 0                   \* Optional[int] None
Majors == {8, 16, 17, 21}      \* the values of java_major_for_mc

\* lines 146-164: JAVA_VERSION of <home>/release
_read_release_java_version(home) ==
    LET v == home.release
    IN  IF v = NoVersion THEN NoMajor
        ELSE IF Len(v) >= 2 /\ v[1] = 1 THEN 8
        ELSE v[1]

\* lines 174-192: home.dirname is the version that follows "java-" in the
\* directory name ("java-17-openjdk-amd64": 17; "java-1.8.0-openjdk": 1.8.0),
\* NoVersion for a name without "java-<digits>".  The first pattern takes the
\* digits up to the first non-digit.
_major_from_dirname(home) ==
    LET d == home.dirname
        java_n == d # NoVersion                               \* java-(\d+)(?:[^\d]|$)
        java_1_x_y == d # NoVersion /\ Len(d) >= 3 /\ d[1] = 1  \* java-1\.(\d+)\.\d+
    IN  IF java_n THEN d[1]
        ELSE IF java_1_x_y THEN (IF d[2] = 8 THEN 8 ELSE NoMajor)
        ELSE NoMajor

\* lines 286-293 and 301-309: the major read from the banner of "-version"
\* (the quoted version string) when the major asked for is `major`
BannerMajor(banner, major) ==
    IF banner = NoVersion THEN NoMajor
    ELSE IF Len(banner) >= 2 /\ banner[1] = 1 /\ major = 8 THEN 8
    ELSE banner[1]

\* lines 279-295: release file, else directory name, else the banner
HomeMajor(home, major) ==
    IF _read_release_java_version(home) # NoMajor THEN _read_release_java_version(home)
    ELSE IF _major_from_dirname(home) # NoMajor THEN _major_from_dirname(home)
    ELSE BannerMajor(home.banner, major)

\* what _list_candidate_java_homes finds (lines 195-241): homes that have
\* bin/java, in the order of the install roots and of their listings
JavaHomes ==
    { [release |-> <<17, 0, 11>>, dirname |-> NoVersion, banner |-> <<17, 0, 11>>],
      [release |-> <<1, 8, 0>>, dirname |-> <<1, 8, 0>>, banner |-> <<1, 8, 0>>],
      [release |-> NoVersion, dirname |-> <<21>>, banner |-> <<21, 0, 1>>],
      [release |-> NoVersion, dirname |-> <<1, 8, 0>>, banner |-> <<1, 8, 0>>],
      [release |-> NoVersion, dirname |-> NoVersion, banner |-> <<1, 8, 0>>],
      [release |-> NoVersion, dirname |-> NoVersion, banner |-> <<17, 0, 9>>],
      [release |-> NoVersion, dirname |-> NoVersion, banner |-> NoVersion] }

\* JAVA_<major>: unset, a path that is no file, a file; JAVA_HOME_<major>:
\* unset, a home without bin/java, a home with it; "java" on the search
\* path: its banner, NoVersion when it cannot be run or prints no version
Hosts ==
    [direct : {"unset", "nofile", "file"},
     envhome : {"unset", "noexe", "exe"},
     homes : SeqsUpTo(JavaHomes, MaxHomes),
     path : {NoVersion, <<1, 8, 0>>, <<17, 0, 9>>}]

\* the binary found: where it came from and, for a scanned home, which one
Exe(via, at) == [via |-> via, at |-> at]
NoExe == Exe("none", 0)

\* lines 244-258
_find_java_by_env(host) ==
    IF host.direct = "file" THEN Exe("JAVA_major", 0)
    ELSE IF host.envhome = "exe" THEN Exe("JAVA_HOME_major", 0)
    ELSE NoExe

\* lines 277-297: the first home whose major is the one asked for
RECURSIVE ScanHomes(_, _, _)
ScanHomes(homes, i, major) ==
    IF i > Len(homes) THEN NoExe
    ELSE IF HomeMajor(homes[i], major) = major THEN Exe("scan", i)
    ELSE ScanHomes(homes, i + 1, major)

\* lines 300-311
PathJava(host, major) ==
    IF host.path # NoVersion /\ BannerMajor(host.path, major) = major THEN Exe("path", 0)
    ELSE NoExe

\* lines 261-313
find_java_for_major_path_first(major, host) ==
    IF _find_java_by_env(host) # NoExe THEN _find_java_by_env(host)
    ELSE IF PathJava(host, major) # NoExe THEN PathJava(host, major)
    ELSE ScanHomes(host.homes, 1, major)
find_java_for_major(major, host) ==
    IF _find_java_by_env(host) # NoExe THEN _find_java_by_env(host)
    ELSE IF ScanHomes(host.homes, 1, major) # NoExe THEN ScanHomes(host.homes, 1, major)
    ELSE PathJava(host, major)

\* lines 316-326: (java_exe, mc_version, java_major)
resolve_java_for_server(inst, host) ==
    LET mc == detect_mc_version(inst)
    IN  IF mc = None THEN <<NoExe, None, NoMajor>>
        ELSE <<find_java_for_major(java_major_for_mc(mc), host), mc, java_major_for_mc(mc)>>

\* the installations and hosts start() is studied on: no version source, a
\* root archive, a folder of versions/; no runtime at all, one installed
\* runtime of major 17
ResolveInstalls ==
    { [isdir |-> TRUE, versions |-> Absent, root |-> Found(<<>>), log |-> Absent],
      [isdir |-> TRUE, versions |-> Absent, log |-> Absent,
       root |-> Found(<<[ext |-> "jar", pat |-> "minecraft_server", tok |-> <<1, 19, 2>>]>>)],
      [isdir |-> TRUE, root |-> Unreadable, log |-> Unreadable,
       versions |-> Found(<<[dir |-> TRUE, tok |-> <<1, 20, 0>>, inner |-> Found(<<>>)]>>)] }
ResolveHosts ==
    { [direct |-> "unset", envhome |-> "unset", homes |-> <<>>, path |-> NoVersion],
      [direct |-> "unset", envhome |-> "unset", path |-> NoVersion,
       homes |-> <<[release |-> <<17, 0, 11>>, dirname |-> NoVersion, banner |-> <<17, 0, 11>>]>>] }
ResolveResults == {resolve_java_for_server(i, h) : i \in ResolveInstalls, h \in ResolveHosts}

\* start(), lines 87-89: without a resolved binary the name "java", which
\* the search path resolves (the same value find_java_for_major returns from
\* its last step)
java_exe_as_resolved(java_exe) == java_exe
java_exe_or_default(java_exe) == IF java_exe = NoExe THEN Exe("path", 0) ELSE java_exe

\* ---- initial state ---------------------------------------------------

\* The instance as constructed (pid, proc, log_path: lines 28-30) over an
\* installation directory.  The explored configurations deviate from the
\* reference one (xmx 2, xms 1, no pid recorded, server.jar only, no
\* user_jvm_args.txt) in at most two of heap settings, recorded pid and
\* directory contents, and in at most one of them when start() can launch.
Deviations ==
    (IF <<xmx, xms>> = <<2, 1>> THEN 0 ELSE 1)
    + (IF pid = 0 THEN 0 ELSE 1)
    + (IF hasJar /\ scripts = {} /\ jvmArgs = NoFile THEN 0 ELSE 1)

InstanceInit ==
    /\ xmx \in HeapVals /\ xms \in HeapVals
    /\ pid \in {0, ExtPid}
    /\ proc = NoProc
    /\ logPath = NoPath
    /\ hasJar \in BOOLEAN
    /\ scripts \in ScriptSets
    /\ logDir = FALSE
    /\ logFiles = {}
    /\ jvmArgs \in JvmInit
    /\ clock = 0
    /\ nspawn = 0
    /\ alive = {}
    /\ buf = [k \in Children |-> <<>>]
    /\ chan = [k \in Children |-> <<>>]
    /\ rd = [k \in Children |-> 0]
    /\ ext \in (IF pid = ExtPid THEN {"dead", "ours", "foreign"} ELSE {"dead"})
    /\ pc = [c \in Callers |-> "idle"]
    /\ op = [c \in Callers |-> "none"]
    /\ arg = [c \in Callers |-> <<>>]
    /\ ret = [c \in Callers |-> 0]
    /\ useJar = [c \in Callers |-> FALSE]
    /\ javaExe = [c \in Callers |-> NoExe]
    /\ script = [c \in Callers |-> NoScript]
    /\ logFh = [c \in Callers |-> NoFh]
    /\ spawned = [c \in Callers |-> NoProc]
    /\ wrote = [c \in Callers |-> <<>>]
    /\ ncalls = 0
    /\ nfaults = 0
    /\ restarts = 0
    /\ nprev = 0
    /\ FeInit
    /\ Deviations <= (IF ValidHeap(xmx, xms) /\ (hasJar \/ scripts # {}) THEN 1 ELSE 2)

\* no helper call is under study
Init ==
    /\ InstanceInit
    /\ uin = NoInput
    /\ uout = NoOutput

\* An operation of the host may fail (ok = FALSE) while the fault budget lasts.
Outcomes == IF nfaults < MaxFaults THEN BOOLEAN ELSE {TRUE}
Cost(ok) == IF ok THEN 0 ELSE 1

\* ---- callers --------------------------------------------------------

callRest == <<op, useJar, script, javaExe, logFh, spawned, wrote, ncalls>>

\* The call returns r; its argument goes out of scope.
Done(c, r) ==
    /\ pc' = [pc EXCEPT ![c] = "done"]
    /\ ret' = [ret EXCEPT ![c] = r]
    /\ arg' = [arg EXCEPT ![c] = <<>>]

\* The call moves on to its next step.
Goto(c, l) ==
    /\ pc' = [pc EXCEPT ![c] = l]
    /\ UNCHANGED <<ret, arg>>

\* A caller invokes start(), stop(), send_command(command) or is_running().
Call(c, o, a) ==
    /\ pc[c] \in {"idle", "done"}
    /\ ncalls < MaxCalls
    /\ ncalls' = ncalls + 1
    /\ op' = [op EXCEPT ![c] = o]
    /\ arg' = [arg EXCEPT ![c] = a]
    /\ pc' = [pc EXCEPT ![c] =
                IF o = "start" THEN "s_pre" ELSE IF o = "stop" THEN "t_check"
                ELSE IF o = "is_running" THEN "r_check" ELSE "c_check"]
    /\ ret' = [ret EXCEPT ![c] = 0]
    /\ spawned' = [spawned EXCEPT ![c] = NoProc]
    /\ wrote' = [wrote EXCEPT ![c] = <<>>]
    /\ UNCHANGED <<instVars, fsVars, feVars, utVars, osVars, useJar, script, javaExe, logFh>>

CallStart(c) ==
    /\ nspawn + Cardinality({d \in Callers : pc[d] \in {"s_pre", "s_log", "s_spawn"}}) < MaxSpawn
    /\ Call(c, "start", <<>>)
CallStop(c) == Call(c, "stop", StopCmd)
CallSend(c) == \E a \in UserCmds : Call(c, "send", a)
CallIsRunning(c) == Call(c, "is_running", <<>>)

\* ---- start() ---------------------------------------------------------

\* lines 78-107: heap validation, runtime resolution (reads only, with the
\* fallback of lines 87-89), choice of the runnable artifact.  Nothing is
\* written before the two early returns.
StartPreResets(c) ==
    /\ pc[c] = "s_pre"
    /\ IF ~ValidHeap(xmx, xms) \/ (~hasJar /\ FirstScript(scripts) = NoScript)
       THEN /\ Done(c, Fail)
            /\ pid' = 0 /\ proc' = NoProc /\ logPath' = NoPath
            /\ UNCHANGED <<useJar, script, javaExe>>
       ELSE /\ Goto(c, "s_log")
            /\ useJar' = [useJar EXCEPT ![c] = hasJar]
            /\ script' = [script EXCEPT ![c] = IF hasJar THEN NoScript ELSE FirstScript(scripts)]
            /\ \E resolved \in ResolveResults :
                    javaExe' = [javaExe EXCEPT ![c] = java_exe_or_default(resolved[1])]
            /\ UNCHANGED <<pid, proc, logPath>>
    /\ UNCHANGED <<xmx, xms, fsVars, feVars, utVars, osVars, op, logFh, spawned, wrote, ncalls>>
StartPre(c) ==
    /\ pc[c] = "s_pre"
    /\ IF ~ValidHeap(xmx, xms)
       THEN Done(c, Fail) /\ UNCHANGED <<useJar, script, javaExe>>
       ELSE \E resolved \in ResolveResults :
            LET java_exe == java_exe_or_default(resolved[1])
                use_jar == hasJar
                script_name == IF use_jar THEN NoScript ELSE FirstScript(scripts)
            IN  IF ~use_jar /\ script_name = NoScript
                THEN Done(c, Fail) /\ UNCHANGED <<useJar, script, javaExe>>
                ELSE /\ Goto(c, "s_log")
                     /\ useJar' = [useJar EXCEPT ![c] = use_jar]
                     /\ script' = [script EXCEPT ![c] = script_name]
                     /\ javaExe' = [javaExe EXCEPT ![c] = java_exe]
    /\ UNCHANGED <<instVars, fsVars, feVars, utVars, osVars, op, logFh, spawned, wrote, ncalls>>

\* lines 108-122: best-effort log directory (makedirs, exist_ok), then the
\* log file named after datetime.now() to the second, opened with mode "w";
\* self.log_path is assigned when the open succeeds.
StartLogAborts(c) ==
    /\ pc[c] = "s_log"
    /\ \E dirOk \in Outcomes, openOk \in Outcomes, now \in clock..MaxClock :
        LET log_dir == IF dirOk THEN "bot-logs" ELSE "."
            log_path == <<log_dir, now>>
        IN  /\ nfaults + Cost(dirOk) + Cost(openOk) <= MaxFaults
            /\ nfaults' = nfaults + Cost(dirOk) + Cost(openOk)
            /\ clock' = now
            /\ logDir' = (logDir \/ dirOk)
            /\ IF openOk
               THEN /\ logFiles' = logFiles \cup {log_path}
                    /\ logPath' = log_path
                    /\ logFh' = [logFh EXCEPT ![c] = log_path]
                    /\ Goto(c, "s_spawn")
               ELSE /\ Done(c, Fail)
                    /\ UNCHANGED <<logFiles, logPath, logFh>>
    /\ UNCHANGED <<xmx, xms, pid, proc, feVars, utVars, hasJar, scripts, jvmArgs,
                   nspawn, alive, buf, chan, rd, ext, sessVars,
                   op, useJar, script, javaExe, spawned, wrote, ncalls>>
StartLog(c) ==
    /\ pc[c] = "s_log"
    /\ \E dirOk \in Outcomes, openOk \in Outcomes, now \in clock..MaxClock :
        LET log_dir == IF dirOk THEN "bot-logs" ELSE "."
            log_path == <<log_dir, now>>
        IN  /\ nfaults + Cost(dirOk) + Cost(openOk) <= MaxFaults
            /\ nfaults' = nfaults + Cost(dirOk) + Cost(openOk)
            /\ clock' = now
            /\ logDir' = (logDir \/ dirOk)
            /\ IF openOk
               THEN /\ logFiles' = logFiles \cup {log_path}
                    /\ logPath' = log_path
                    /\ logFh' = [logFh EXCEPT ![c] = log_path]
               ELSE /\ logFh' = [logFh EXCEPT ![c] = DevNull]
                    /\ UNCHANGED <<logFiles, logPath>>
    /\ Goto(c, "s_spawn")
    /\ UNCHANGED <<xmx, xms, pid, proc, feVars, utVars, hasJar, scripts, jvmArgs,
                   nspawn, alive, buf, chan, rd, ext, sessVars,
                   op, useJar, script, javaExe, spawned, wrote, ncalls>>

\* lines 123-197: for a script launch rewrite user_jvm_args.txt (best effort),
\* then Popen; self.proc is assigned when the spawn succeeds, an exception
\* from Popen ends the call with -1 (lines 200-202).
StartSpawnClearsPid(c) ==
    /\ pc[c] = "s_spawn"
    /\ \E writeOk \in (IF useJar[c] THEN {TRUE} ELSE Outcomes), spawnOk \in Outcomes :
        /\ nfaults + Cost(writeOk) + Cost(spawnOk) <= MaxFaults
        /\ nfaults' = nfaults + Cost(writeOk) + Cost(spawnOk)
        /\ jvmArgs' = IF ~useJar[c] /\ writeOk
                      THEN RewriteJvmArgs(jvmArgs, xmx, xms) ELSE jvmArgs
        /\ IF spawnOk
           THEN LET k == nspawn + 1
                IN  /\ nspawn' = k
                    /\ alive' = alive \cup {k}
                    /\ proc' = k
                    /\ spawned' = [spawned EXCEPT ![c] = k]
                    /\ Goto(c, "s_setpid")
           ELSE /\ Done(c, Fail)
                /\ UNCHANGED <<nspawn, alive, proc, spawned>>
        /\ pid' = IF spawnOk THEN pid ELSE 0
    \* the locals of start() are not used after this point
    /\ useJar' = [useJar EXCEPT ![c] = FALSE]
    /\ javaExe' = [javaExe EXCEPT ![c] = NoExe]
    /\ script' = [script EXCEPT ![c] = NoScript]
    /\ logFh' = [logFh EXCEPT ![c] = NoFh]
    /\ UNCHANGED <<xmx, xms, logPath, feVars, utVars, hasJar, scripts, logDir, logFiles, clock,
                   buf, chan, rd, ext, sessVars, op, wrote, ncalls>>
StartSpawn(c) ==
    /\ pc[c] = "s_spawn"
    /\ \E writeOk \in (IF useJar[c] THEN {TRUE} ELSE Outcomes), spawnOk \in Outcomes :
        /\ nfaults + Cost(writeOk) + Cost(spawnOk) <= MaxFaults
        /\ nfaults' = nfaults + Cost(writeOk) + Cost(spawnOk)
        /\ jvmArgs' = IF ~useJar[c] /\ writeOk
                      THEN RewriteJvmArgs(jvmArgs, xmx, xms) ELSE jvmArgs
        /\ IF spawnOk
           THEN LET k == nspawn + 1
                IN  /\ nspawn' = k
                    /\ alive' = alive \cup {k}
                    /\ proc' = k
                    /\ spawned' = [spawned EXCEPT ![c] = k]
                    /\ Goto(c, "s_setpid")
           ELSE /\ Done(c, Fail)
                /\ UNCHANGED <<nspawn, alive, proc, spawned>>
    \* the locals of start() are not used after this point
    /\ useJar' = [useJar EXCEPT ![c] = FALSE]
    /\ javaExe' = [javaExe EXCEPT ![c] = NoExe]
    /\ script' = [script EXCEPT ![c] = NoScript]
    /\ logFh' = [logFh EXCEPT ![c] = NoFh]
    /\ UNCHANGED <<xmx, xms, pid, logPath, feVars, utVars, hasJar, scripts, logDir, logFiles, clock,
                   buf, chan, rd, ext, sessVars, op, wrote, ncalls>>

\* line 198: self.pid = self.proc.pid
StartSetPidOnce(c) ==
    /\ pc[c] = "s_setpid"
    /\ pid' = IF pid > 0 THEN pid ELSE proc
    /\ Goto(c, "s_ret")
    /\ UNCHANGED <<xmx, xms, proc, logPath, fsVars, feVars, utVars, osVars, callRest>>
StartSetPid(c) ==
    /\ pc[c] = "s_setpid"
    /\ pid' = proc
    /\ Goto(c, "s_ret")
    /\ UNCHANGED <<xmx, xms, proc, logPath, fsVars, feVars, utVars, osVars, callRest>>

\* line 199: return self.pid
StartRetSpawned(c) ==
    /\ pc[c] = "s_ret"
    /\ Done(c, spawned[c])
    /\ UNCHANGED <<instVars, fsVars, feVars, utVars, osVars, callRest>>
StartRet(c) ==
    /\ pc[c] = "s_ret"
    /\ Done(c, pid)
    /\ UNCHANGED <<instVars, fsVars, feVars, utVars, osVars, callRest>>

\* ---- stop() and send_command() ---------------------------------------

\* stop(), lines 210-212: no pid recorded -> -1, else send_command("stop")
StopCheckTrustsHandle(c) ==
    /\ pc[c] = "t_check"
    /\ IF pid <= 0 THEN Done(c, Fail)
       ELSE IF proc # NoProc THEN Goto(c, "c_write") ELSE Goto(c, "c_check")
    /\ UNCHANGED <<instVars, fsVars, feVars, utVars, osVars, callRest>>
StopCheck(c) ==
    /\ pc[c] = "t_check"
    /\ IF pid <= 0 THEN Done(c, Fail) ELSE Goto(c, "c_check")
    /\ UNCHANGED <<instVars, fsVars, feVars, utVars, osVars, callRest>>

\* send_command(), lines 226-227 (the stdin of a Popen made with stdin=PIPE
\* is always present)
SendCheckNoHandleTest(c) ==
    /\ pc[c] = "c_check"
    /\ IF ~IsRunning THEN Done(c, Fail) ELSE Goto(c, "c_write")
    /\ UNCHANGED <<instVars, fsVars, feVars, utVars, osVars, callRest>>
SendCheck(c) ==
    /\ pc[c] = "c_check"
    /\ IF proc = NoProc \/ ~IsRunning THEN Done(c, Fail) ELSE Goto(c, "c_write")
    /\ UNCHANGED <<instVars, fsVars, feVars, utVars, osVars, callRest>>

\* lines 229-230: line = command (+ "\n"); self.proc.stdin.write(line) hands
\* the whole line to the stream in one call
SendWriteChunked(c) ==
    /\ pc[c] = "c_write"
    /\ LET line == IF wrote[c] = <<>> THEN Normalize(arg[c]) ELSE arg[c]
       IN  /\ buf' = [buf EXCEPT ![proc] = Append(@, Head(line))]
           /\ wrote' = [wrote EXCEPT ![c] = Append(@, <<proc, <<Head(line)>>, "buffered">>)]
           /\ arg' = [arg EXCEPT ![c] = Tail(line)]
           /\ pc' = [pc EXCEPT ![c] = IF Tail(line) = <<>> THEN "c_flush" ELSE "c_write"]
    /\ UNCHANGED <<instVars, fsVars, feVars, utVars, nspawn, alive, chan, rd, ext, nfaults, sessVars,
                   ret, op, useJar, script, javaExe, logFh, spawned, ncalls>>
SendWrite(c) ==
    /\ pc[c] = "c_write"
    /\ LET line == Normalize(arg[c])
       IN  /\ buf' = [buf EXCEPT ![proc] = @ \o line]
           /\ wrote' = [wrote EXCEPT ![c] = Append(@, <<proc, line, "buffered">>)]
    /\ pc' = [pc EXCEPT ![c] = "c_flush"]
    /\ UNCHANGED <<instVars, fsVars, feVars, utVars, nspawn, alive, chan, rd, ext, nfaults, sessVars,
                   ret, arg, op, useJar, script, javaExe, logFh, spawned, ncalls>>

\* lines 231-234: self.proc.stdin.flush(); return 0.  Flushing pending text
\* into the pipe of a child that has exited raises (broken pipe) -> -1.
\* stop(), line 212, passes 0 on and turns anything else into -1.
Piped(w, k) == [i \in DOMAIN w |-> IF w[i][1] = k THEN <<w[i][1], w[i][2], "piped">> ELSE w[i]]
SendFlushDropsHandle(c) ==
    /\ pc[c] = "c_flush"
    /\ IF buf[proc] = <<>>
       THEN Done(c, 0) /\ UNCHANGED <<buf, chan, wrote>>
       ELSE IF proc \in alive
            THEN /\ chan' = [chan EXCEPT ![proc] = @ \o buf[proc]]
                 /\ buf' = [buf EXCEPT ![proc] = <<>>]
                 /\ wrote' = [d \in Callers |-> Piped(wrote[d], proc)]
                 /\ Done(c, 0)
            ELSE Done(c, Fail) /\ UNCHANGED <<buf, chan, wrote>>
    /\ IF buf[proc] # <<>> /\ proc \notin alive
       THEN pid' = 0 /\ proc' = NoProc /\ UNCHANGED <<xmx, xms, logPath>>
       ELSE UNCHANGED instVars
    /\ UNCHANGED <<fsVars, feVars, utVars, nspawn, alive, rd, ext, nfaults, sessVars,
                   op, useJar, script, javaExe, logFh, spawned, ncalls>>
SendFlush(c) ==
    /\ pc[c] = "c_flush"
    /\ IF buf[proc] = <<>>
       THEN Done(c, 0) /\ UNCHANGED <<buf, chan, wrote>>
       ELSE IF proc \in alive
            THEN /\ chan' = [chan EXCEPT ![proc] = @ \o buf[proc]]
                 /\ buf' = [buf EXCEPT ![proc] = <<>>]
                 /\ wrote' = [d \in Callers |-> Piped(wrote[d], proc)]
                 /\ Done(c, 0)
            ELSE Done(c, Fail) /\ UNCHANGED <<buf, chan, wrote>>
    /\ UNCHANGED <<instVars, fsVars, feVars, utVars, nspawn, alive, rd, ext, nfaults, sessVars,
                   op, useJar, script, javaExe, logFh, spawned, ncalls>>

\* is_running(), lines 49-63, called on its own (Main.py, the front end's
\* running_servers()): it reads the handle, and pid only without a handle;
\* 1 stands for True, 0 for False.
IsRunningRetPidFirst(c) ==
    /\ pc[c] = "r_check"
    /\ Done(c, IF (IF pid > 0 THEN Probe(pid) # "nosuch" ELSE proc \in alive) THEN 1 ELSE 0)
    /\ UNCHANGED <<instVars, fsVars, feVars, utVars, osVars, callRest>>
IsRunningRet(c) ==
    /\ pc[c] = "r_check"
    /\ Done(c, IF IsRunning THEN 1 ELSE 0)
    /\ UNCHANGED <<instVars, fsVars, feVars, utVars, osVars, callRest>>

\* The input channels (proc.stdin, lines 141-148 and 189-197) this manager
\* process holds open.  No line of the class closes one: the channel goes
\* with the Popen object, which the instance refers to until a later start()
\* replaces self.proc, and which the runtime keeps while its child runs.
HeldChannels == {k \in (nprev + 1)..nspawn : k = proc \/ k \in alive}

\* ---- environment -----------------------------------------------------

\* Position of the first newline of s at or after i (0 when there is none).
RECURSIVE NextNL(_, _)
NextNL(s, i) == IF i > Len(s) THEN 0 ELSE IF s[i] = NL THEN i ELSE NextNL(s, i + 1)

\* The child reads one line of console input; on "stop" it shuts down.
ChildRead(k) ==
    /\ k \in alive
    /\ LET e == NextNL(chan[k], rd[k] + 1)
       IN  /\ e > 0
           /\ rd' = [rd EXCEPT ![k] = e]
           /\ alive' = IF SubSeq(chan[k], rd[k] + 1, e) = StopLine THEN alive \ {k} ELSE alive
    /\ UNCHANGED <<instVars, fsVars, feVars, utVars, nspawn, buf, chan, ext, nfaults, sessVars, callVars>>

\* The child exits on its own (crash, failed startup).
ChildCrash(k) ==
    /\ k \in alive
    /\ alive' = alive \ {k}
    /\ UNCHANGED <<instVars, fsVars, feVars, utVars, nspawn, buf, chan, rd, ext, nfaults, sessVars, callVars>>

\* The process behind ExtPid exits.
ExtExit ==
    /\ ext # "dead"
    /\ ext' = "dead"
    /\ UNCHANGED <<instVars, fsVars, feVars, utVars, nspawn, alive, buf, chan, rd, nfaults, sessVars, callVars>>

\* The manager process ends and is started again (UtilsServer.get_servers,
\* lines 21-39): the instance is built afresh with the discovery defaults for
\* the heap and the dataclass defaults pid = 0, proc = None, log_path = None.
\* The calls in progress, the text not yet flushed and the handles end with
\* the old process; the children and the files stay.
Restart ==
    /\ restarts < MaxRestarts
    /\ ncalls < MaxCalls
    /\ restarts' = restarts + 1
    /\ ncalls' = ncalls + 1
    /\ nprev' = nspawn
    /\ xmx' = 2 /\ xms' = 1
    /\ pid' = 0 /\ proc' = NoProc /\ logPath' = NoPath
    /\ buf' = [k \in Children |-> <<>>]
    /\ pc' = [c \in Callers |-> "idle"]
    /\ op' = [c \in Callers |-> "none"]
    /\ arg' = [c \in Callers |-> <<>>]
    /\ ret' = [c \in Callers |-> 0]
    /\ useJar' = [c \in Callers |-> FALSE]
    /\ javaExe' = [c \in Callers |-> NoExe]
    /\ script' = [c \in Callers |-> NoScript]
    /\ logFh' = [c \in Callers |-> NoFh]
    /\ spawned' = [c \in Callers |-> NoProc]
    /\ wrote' = [c \in Callers |-> <<>>]
    /\ UNCHANGED <<fsVars, feVars, utVars, nspawn, alive, chan, rd, ext, nfaults>>

Next ==
    \/ \E c \in Callers : CallStart(c)
    \/ \E c \in Callers : CallStop(c)
    \/ \E c \in Callers : CallSend(c)
    \/ \E c \in Callers : CallIsRunning(c)
    \/ \E c \in Callers : StartPre(c)
    \/ \E c \in Callers : StartLog(c)
    \/ \E c \in Callers : StartSpawn(c)
    \/ \E c \in Callers : StartSetPid(c)
    \/ \E c \in Callers : StartRet(c)
    \/ \E c \in Callers : StopCheck(c)
    \/ \E c \in Callers : SendCheck(c)
    \/ \E c \in Callers : SendWrite(c)
    \/ \E c \in Callers : SendFlush(c)
    \/ \E c \in Callers : IsRunningRet(c)
    \/ \E k \in Children : ChildRead(k)
    \/ \E k \in Children : ChildCrash(k)
    \/ ExtExit
    \/ Restart

Spec == Init /\ [][Next]_vars

\* A live child keeps reading its console input.  The callers are under no
\* obligation to call, and a child need not exit on its own.
FairSpec == Spec /\ \A k \in Children : WF_vars(ChildRead(k))

\* ---- the front end: interactions -------------------------------------

\* Every callback runs to its first await without another callback in
\* between; the calls into the instances (is_running, start, stop) are
\* synchronous, so each interaction below is one step.
ReplyTo(u, m, v, a) ==
    /\ nevents < MaxEvents
    /\ nevents' = nevents + 1
    /\ last' = [who |-> u, msg |-> m, val |-> v, arg |-> a]
Reply(u, m, v) == ReplyTo(u, m, v, 0)

\* /start, lines 551-557 and 767-773
StartCommand(u) ==
    LET choices == {n \in Names : ~servers[n].up}
        available_gb == get_available_memory_gb(servers, default_reserve_gb)
    IN  /\ IF choices = {}
           THEN Reply(u, "no_stopped", 0) /\ UNCHANGED views
           ELSE /\ Reply(u, "pick", available_gb)
                /\ views' = [views EXCEPT ![u] = StartView(choices, available_gb)]
        /\ UNCHANGED <<servers, coreVars, utVars>>

\* ServerSelect.callback, lines 634-637
SelectServer(u) ==
    /\ views[u].open
    /\ \E n \in views[u].servers_list :
          views' = [views EXCEPT ![u].selected_server_name = n]
    /\ Reply(u, "defer", 0)
    /\ UNCHANGED <<servers, coreVars, utVars>>

\* XmsSelect.callback, lines 658-666
SelectXms(u) ==
    /\ views[u].open
    /\ \E v \in XmsPicks : views' = [views EXCEPT ![u].selected_xms = v]
    /\ Reply(u, "defer", 0)
    /\ UNCHANGED <<servers, coreVars, utVars>>

\* XmxSelect.callback, lines 692-700; the select is disabled when the menu
\* was rendered with nothing available (lines 592-594)
SelectXmx(u) ==
    /\ views[u].open /\ views[u].available_gb > 0
    /\ \E v \in XmxPicks \cap XmxOptions(views[u].available_gb) :
          views' = [views EXCEPT ![u].selected_xmx = v]
    /\ Reply(u, "defer", 0)
    /\ UNCHANGED <<servers, coreVars, utVars>>

\* StartButton.callback, lines 706-758; the button is disabled when the menu
\* was rendered with nothing available (lines 595-598).  start() on valid
\* heap settings fails when there is nothing to launch or the spawn fails.
\* The callback does not ask is_running() before it calls start(): on an
\* instance whose child is alive, start() launches another child and the
\* handle moves on to it, the earlier child living on.
StartButtonStale(u) ==
    LET view == views[u]
        srv == view.selected_server_name
        xms_ == view.selected_xms
        xmx_ == view.selected_xmx
        current_avail == view.available_gb
    IN  /\ view.open /\ view.available_gb > 0
        /\ IF srv = NoName THEN Reply(u, "select_server", 0) /\ UNCHANGED <<servers, views>>
           ELSE IF xms_ <= 0 \/ xmx_ <= 0 THEN Reply(u, "not_positive", 0) /\ UNCHANGED <<servers, views>>
           ELSE IF xmx_ < xms_ THEN Reply(u, "xmx_lt_xms", 0) /\ UNCHANGED <<servers, views>>
           ELSE IF xmx_ > current_avail
                THEN Reply(u, "not_enough", current_avail) /\ UNCHANGED <<servers, views>>
           ELSE \E started \in BOOLEAN :
                   IF started
                   THEN /\ servers' = [servers EXCEPT ![srv] =
                                        [xmx |-> xmx_, xms |-> xms_, up |-> TRUE,
                                         kids |-> Append(servers[srv].kids, xmx_)]]
                        /\ views' = [views EXCEPT ![u] = ClosedView]
                        /\ Reply(u, "starting", xmx_)
                   ELSE /\ servers' = [servers EXCEPT ![srv].xmx = xmx_, ![srv].xms = xms_]
                        /\ Reply(u, "failed", xmx_)
                        /\ UNCHANGED views
        /\ UNCHANGED <<coreVars, utVars>>
StartButton(u) ==
    LET view == views[u]
        srv == view.selected_server_name
        xms_ == view.selected_xms
        xmx_ == view.selected_xmx
        current_avail == get_available_memory_gb(servers, default_reserve_gb)
    IN  /\ view.open /\ view.available_gb > 0
        /\ IF srv = NoName THEN Reply(u, "select_server", 0) /\ UNCHANGED <<servers, views>>
           ELSE IF xms_ <= 0 \/ xmx_ <= 0 THEN Reply(u, "not_positive", 0) /\ UNCHANGED <<servers, views>>
           ELSE IF xmx_ < xms_ THEN Reply(u, "xmx_lt_xms", 0) /\ UNCHANGED <<servers, views>>
           ELSE IF xmx_ > current_avail
                THEN Reply(u, "not_enough", current_avail) /\ UNCHANGED <<servers, views>>
           ELSE \E started \in BOOLEAN :
                   IF started
                   THEN /\ servers' = [servers EXCEPT ![srv] =
                                        [xmx |-> xmx_, xms |-> xms_, up |-> TRUE,
                                         kids |-> Append(servers[srv].kids, xmx_)]]
                        /\ views' = [views EXCEPT ![u] = ClosedView]
                        /\ Reply(u, "starting", xmx_)
                   ELSE /\ servers' = [servers EXCEPT ![srv].xmx = xmx_, ![srv].xms = xms_]
                        /\ Reply(u, "failed", xmx_)
                        /\ UNCHANGED views
        /\ UNCHANGED <<coreVars, utVars>>

\* CancelButton.callback, lines 764-765
CancelButton(u) ==
    /\ views[u].open
    /\ views' = [views EXCEPT ![u] = ClosedView]
    /\ Reply(u, "cancelled", 0)
    /\ UNCHANGED <<servers, coreVars, utVars>>

\* /stop and StopSelect.callback, lines 775-800, on an instance the menu
\* listed as running: rc is what stop() returned, 0 once the line is written
\* and -1 when the write fails (MinecraftServer.py lines 226-234).  The
\* reply is the same whatever stop() returned; last.arg keeps rc.
StopSelect(u) ==
    /\ \E n \in Names :
          /\ servers[n].up
          /\ \E rc \in {0, Fail} : ReplyTo(u, "stopping", 0, rc)
    /\ UNCHANGED <<servers, views, coreVars, utVars>>

\* The child of the handle exits (after "stop", or on its own).
ServerExit(n) ==
    /\ servers[n].up
    /\ servers' = [servers EXCEPT ![n].up = FALSE,
                                  ![n].kids = SubSeq(servers[n].kids, 1, Len(servers[n].kids) - 1)]
    /\ UNCHANGED <<views, last, nevents, coreVars, utVars>>

\* A live child that the handle no longer refers to exits.
OrphanExit(n) ==
    /\ \E i \in 1..(Len(servers[n].kids) - (IF servers[n].up THEN 1 ELSE 0)) :
          servers' = [servers EXCEPT ![n].kids = SubSeq(servers[n].kids, 1, i - 1)
                                                      \o SubSeq(servers[n].kids, i + 1, Len(servers[n].kids))]
    /\ UNCHANGED <<views, last, nevents, coreVars, utVars>>

\* get_available_memory_gb(servers, reserve_gb) called on the shared list
AvailableQuery(u) ==
    /\ \E r \in Reserves : ReplyTo(u, "available", get_available_memory_gb(servers, r), r)
    /\ UNCHANGED <<servers, views, coreVars, utVars>>

FrontInit ==
    /\ Init
    /\ Deviations = 0

FrontNext ==
    \/ \E u \in Users : StartCommand(u)
    \/ \E u \in Users : SelectServer(u)
    \/ \E u \in Users : SelectXms(u)
    \/ \E u \in Users : SelectXmx(u)
    \/ \E u \in Users : StartButton(u)
    \/ \E u \in Users : CancelButton(u)
    \/ \E u \in Users : StopSelect(u)
    \/ \E u \in Users : AvailableQuery(u)
    \/ \E n \in Names : ServerExit(n)
    \/ \E n \in Names : OrphanExit(n)

FrontSpec == FrontInit /\ [][FrontNext]_vars

\* ---- discovery: get_servers() -----------------------------------------

\* A directory entry name is the sequence of its character codes.
EntryNames == {<<65>>, <<97>>, <<98>>, <<97, 98>>}      \* "A", "a", "b", "ab"
Entries == [name : EntryNames, dir : BOOLEAN]
Range(s) == {s[i] : i \in 1..Len(s)}

\* what os.listdir may return: the entries of the root, each name once, in
\* the order the file system happens to enumerate them
Listings ==
    UNION {{l \in [1..n -> Entries] : \A i, j \in 1..n : i # j => l[i].name # l[j].name}
           : n \in 0..MaxEntries}
Roots ==
    {[kind |-> "missing", entries |-> <<>>]}
    \cup {[kind |-> k, entries |-> l] : k \in {"dir", "unreadable"}, l \in Listings}

\* str.lower() on the letters the names use
LowerCh(ch) == IF ch \in 65..90 THEN ch + 32 ELSE ch
Lower(name) == [i \in 1..Len(name) |-> LowerCh(name[i])]

\* a < b for strings: by code point, a proper prefix first
RECURSIVE StrLess(_, _)
StrLess(a, b) ==
    IF b = <<>> THEN FALSE
    ELSE IF a = <<>> THEN TRUE
    ELSE IF Head(a) # Head(b) THEN Head(a) < Head(b)
    ELSE StrLess(Tail(a), Tail(b))

\* line 38, the sort key
NameKey(srv) == Lower(srv.name)

\* list.sort(key=...) is stable: an element goes behind every element that
\* does not compare greater than it
RECURSIVE InsertSorted(_, _)
InsertSorted(srv, sorted) ==
    IF sorted = <<>> THEN <<srv>>
    ELSE IF StrLess(NameKey(srv), NameKey(Head(sorted))) THEN <<srv>> \o sorted
    ELSE <<Head(sorted)>> \o InsertSorted(srv, Tail(sorted))
RECURSIVE SortByName(_)
SortByName(list) ==
    IF list = <<>> THEN <<>>
    ELSE InsertSorted(list[Len(list)], SortByName(SubSeq(list, 1, Len(list) - 1)))

\* line 36: MinecraftServer(path=full, xmx=4, xms=2, name=entry); pid, proc
\* and log_path take the defaults of the dataclass (lines 28-30)
NewServer(entry) ==
    [name |-> entry.name, xmx |-> 4, xms |-> 2, pid |-> 0, proc |-> NoProc, log_path |-> NoPath]

Returned(v) == [kind |-> "return", val |-> v]
Raised == [kind |-> "raise"]

\* lines 27-39; os.listdir (line 33) is not inside a try
RECURSIVE Discovered(_)
Discovered(entries) ==
    IF entries = <<>> THEN <<>>
    ELSE (IF Head(entries).dir THEN <<NewServer(Head(entries))>> ELSE <<>>)
         \o Discovered(Tail(entries))
get_servers(root) ==
    IF root.kind = "missing" THEN Returned(<<>>)
    ELSE IF root.kind = "unreadable" THEN Raised
    ELSE Returned(SortByName(Discovered(root.entries)))

\* ---- the rewrite of user_jvm_args.txt as a function -------------------

\* A line is <<what its stripped text starts with, the rest>>, with a third
\* component when it is indented: "-Xmx1G" is <<"Xmx", 1>>, "  -Xms1G" is
\* <<"Xms", 1, "indent">>, any other line is <<"o", n>>.
ArgLines ==
    { <<"o", 0>>, <<"o", 1>>, <<"o", 1, "indent">>,
      <<"Xmx", 1>>, <<"Xms", 1>>, <<"Xmx", 2, "indent">> }
ArgFiles ==
    {[exists |-> FALSE, lines |-> <<>>]}
    \cup {[exists |-> TRUE, lines |-> l] : l \in SeqsUpTo(ArgLines, MaxLines)}
ArgHeaps == {<<2, 1>>, <<1, 1>>}        \* <<xmx, xms>> that pass validation

\* lines 152-165 applied to the file, and applied again to the result
RewriteTwice(file, mx, ms) ==
    LET once == RewriteJvmArgs(IF file.exists THEN file.lines ELSE NoFile, mx, ms)
    IN  [once |-> once, twice |-> RewriteJvmArgs(once, mx, ms)]

\* ---- construction (Classes/MinecraftServer.py, lines 32-43) -----------

\* What a caller may pass for a heap size: an integer, a string of digits,
\* any other string, or None.  int() returns the number for the first two
\* and raises for the others.
HeapArgs ==
    {[t |-> "int", v |-> n] : n \in -1..MaxHeapArg}
        \cup {[t |-> "digits", v |-> n] : n \in 0..MaxHeapArg}
        \cup {[t |-> "text", v |-> 0], [t |-> "none", v |-> 0]}
int(a) == IF a.t \in {"int", "digits"} THEN Returned(a.v) ELSE Raised

\* lines 38-43: both fields become -1 as soon as one conversion raises;
\* the result is the pair of fields <<xmx, xms>> after construction
__post_init__(xmx_, xms_) ==
    IF int(xmx_) = Raised \/ int(xms_) = Raised
    THEN Returned(<<-1, -1>>)
    ELSE Returned(<<int(xmx_).val, int(xms_).val>>)

\* ---- /clean mob: the Execute button (ServerManager.py, lines 453-532) ---

\* The text typed into the modal, as a sequence of pieces: runs of allowed
\* lowercase characters ("player", "minecraft", "zombie", ":"), a run with
\* capitals ("Player"), a whitespace character (" "), "@", and a character
\* outside the allowed set ("!").
MobIds ==
    UNION {[1..n -> {"player", "Player", "minecraft", "zombie", ":", " ", "@", "!"}] :
              n \in 0..MaxMob}
RECURSIVE strip(_)
strip(t) ==
    IF t = <<>> THEN t
    ELSE IF Head(t) = " " THEN strip(Tail(t))
    ELSE IF t[Len(t)] = " " THEN strip(SubSeq(t, 1, Len(t) - 1))
    ELSE t
lower(t) == [i \in DOMAIN t |-> IF t[i] = "Player" THEN "player" ELSE t[i]]

\* lines 475-478
_is_blocked_type_exact(mob_type) ==
    strip(mob_type) \in {<<"player">>, <<"minecraft", ":", "player">>}
_is_blocked_type(mob_type) ==
    lower(strip(mob_type)) \in {<<"player">>, <<"minecraft", ":", "player">>}

\* lines 480-488
_is_valid_type(mob_type) ==
    IF mob_type = <<>> \/ \E i \in DOMAIN mob_type : mob_type[i] = " " THEN FALSE
    ELSE IF \E i \in DOMAIN mob_type : mob_type[i] = "@" THEN FALSE
    ELSE \A i \in DOMAIN mob_type :
            lower(mob_type)[i] \in {"player", "minecraft", "zombie", ":"}

\* MobModal.on_submit (lines 453-455) keeps the stripped text in the view;
\* ExecuteButton.callback (lines 490-532) then answers with a message and
\* passes `calls` to send_command() of the selected server: a call returns 0
\* when the server is running (up) and -1 otherwise.
ExecuteButton_callback(entered, selected, up) ==
    LET mob_id == strip(entered)
        mob_type == strip(mob_id)
        cmd1 == <<"kill", mob_type>>
        cmd2 == <<"kill", <<"item">>>>
        rc1 == IF up THEN 0 ELSE Fail
        rc2 == IF up THEN 0 ELSE Fail
    IN  IF ~selected THEN [msg |-> "select_server", calls |-> <<>>]
        ELSE IF ~_is_valid_type(mob_type) THEN [msg |-> "invalid", calls |-> <<>>]
        ELSE IF _is_blocked_type(mob_type) THEN [msg |-> "refused", calls |-> <<>>]
        ELSE [msg |-> IF rc1 = 0 /\ rc2 = 0 THEN "sent" ELSE "failed",
              calls |-> <<cmd1, cmd2>>]

\* ---- the helpers as calls: one input, one application -------------------

\* the call under study and what it finds
UtilInit ==
    /\ InstanceInit
    /\ Deviations = 0
    /\ \/ \E r \in Roots : uin = [op |-> "get_servers", root |-> r]
       \/ uin = [op |-> "detect_mc_version", inst |-> NotADir]
       \/ \E i \in InstallDirs : uin = [op |-> "detect_mc_version", inst |-> i]
       \/ \E v \in VersionStrings : uin = [op |-> "java_major_for_mc", ver |-> v]
       \/ \E m \in Majors, h \in Hosts :
                uin = [op |-> "find_java_for_major", major |-> m, host |-> h]
       \/ \E i \in ResolveInstalls, h \in ResolveHosts :
                uin = [op |-> "resolve_java_for_server", inst |-> i, host |-> h]
       \/ \E f \in ArgFiles, h \in ArgHeaps :
                uin = [op |-> "rewrite_jvm_args", file |-> f, heap |-> h]
       \/ \E a \in HeapArgs, b \in HeapArgs :
                uin = [op |-> "__post_init__", xmx |-> a, xms |-> b]
       \/ \E h \in JavaHomes : uin = [op |-> "_major_from_dirname", home |-> h]
       \/ \E e \in MobIds, sel \in BOOLEAN, up \in BOOLEAN :
                uin = [op |-> "execute", entered |-> e, selected |-> sel, up |-> up]
    /\ uout = NoOutput

Apply(name, result) ==
    /\ uin.op = name
    /\ uout = NoOutput
    /\ uout' = result
    /\ UNCHANGED <<coreVars, feVars, uin>>

ApplyGetServers == Apply("get_servers", get_servers(uin.root))

ApplyDetect == Apply("detect_mc_version", Returned(detect_mc_version(uin.inst)))

ApplyJavaMajor == Apply("java_major_for_mc", Returned(java_major_for_mc(uin.ver)))

ApplyFindJava ==
    Apply("find_java_for_major", Returned(find_java_for_major(uin.major, uin.host)))

ApplyResolve ==
    Apply("resolve_java_for_server", Returned(resolve_java_for_server(uin.inst, uin.host)))

ApplyRewrite ==
    Apply("rewrite_jvm_args", Returned(RewriteTwice(uin.file, uin.heap[1], uin.heap[2])))

ApplyPostInit == Apply("__post_init__", __post_init__(uin.xmx, uin.xms))

ApplyMajorFromDirname ==
    Apply("_major_from_dirname", Returned(_major_from_dirname(uin.home)))

ApplyExecute ==
    Apply("execute", Returned(ExecuteButton_callback(uin.entered, uin.selected, uin.up)))

UtilNext ==
    \/ ApplyExecute
    \/ ApplyMajorFromDirname
    \/ ApplyPostInit
    \/ ApplyGetServers
    \/ ApplyDetect
    \/ ApplyJavaMajor
    \/ ApplyFindJava
    \/ ApplyResolve
    \/ ApplyRewrite

UtilSpec == UtilInit /\ [][UtilNext]_vars

\* ---- properties -------------------------------------------------------

AllReturned == \A c \in Callers : pc[c] \in {"idle", "done"}
BadHeap == xmx < xms \/ xmx <= 0 \/ xms <= 0
NoArtifact == ~hasJar /\ scripts \cap {"run.sh", "serverstart.sh", "startserver.sh", "start.sh"} = {}
StartFailed(c) == op[c] = "start" /\ pc[c] = "done" /\ ret[c] = -1

\* C1: at most one live child process is associated with the instance.
C1_AtMostOneLive == Cardinality(alive) <= 1

\* C2: once the start() calls have returned, every live child the instance
\* spawned is the one its process handle and pid refer to.
C2_NoLeakedChild ==
    AllReturned => \A k \in alive : proc = k /\ pid = k

\* C3: with maxHeap < initHeap or either value <= 0, start() returns -1 and
\* spawns nothing: the call never gets past validation.
C3_InvalidHeapFails ==
    \A c \in Callers :
        op[c] = "start" /\ BadHeap =>
            /\ pc[c] \in {"s_pre", "done"}
            /\ spawned[c] = NoProc
            /\ nspawn = 0
            /\ pc[c] = "done" => ret[c] = -1

C3_Witness ==
    \E c \in Callers : StartFailed(c) /\ xmx > 0 /\ xms > xmx /\ hasJar

C5_ConfigErrorKeepsFields ==
    [][\A c \in Callers :
          (BadHeap \/ NoArtifact) /\ pc[c] = "s_pre" /\ pc'[c] # "s_pre" /\ restarts' = restarts =>
              /\ pc'[c] = "done" /\ ret'[c] = -1
              /\ UNCHANGED <<pid, proc, logPath>>]_vars

C5_Witness ==
    \E c \in Callers : StartFailed(c) /\ (BadHeap \/ NoArtifact) /\ pid = ExtPid

\* C9: with no owned process handle, send_command() returns -1 and writes
\* nothing, whatever pid is recorded and whether or not it is alive.
C9_NoHandleSendFails ==
    /\ [](proc = NoProc =>
            \A c \in Callers :
                op[c] = "send" =>
                    /\ pc[c] \in {"c_check", "done"}
                    /\ wrote[c] = <<>>
                    /\ pc[c] = "done" => ret[c] = -1)
    /\ [][proc = NoProc /\ restarts' = restarts => UNCHANGED <<buf, chan>>]_vars

C9_Witness ==
    \E c \in Callers :
        /\ op[c] = "send" /\ pc[c] = "done" /\ ret[c] = -1
        /\ proc = NoProc /\ pid = ExtPid /\ ext # "dead"

\* C8: stop() returns 0 exactly when it has written the one line "stop\n"
\* to the input channel of a child the instance spawned and that line has
\* gone into the child's pipe; otherwise it returns -1.
C8_StopResult ==
    \A c \in Callers :
        op[c] = "stop" /\ pc[c] = "done" =>
            /\ ret[c] \in {0, -1}
            /\ ret[c] = 0 <=>
                 \E k \in 1..nspawn : wrote[c] = << <<k, <<"s", "t", "o", "p", "\n">>, "piped">> >>

\* C7: after stop() has returned 0, is_running() eventually returns false;
\* until the child behind the handle has exited it returns true.
C7_StopLeadsToNotRunning ==
    /\ \A c \in Callers : (op[c] = "stop" /\ pc[c] = "done" /\ ret[c] = 0) ~> ~IsRunning
    /\ [](proc # NoProc /\ proc \in alive => IsRunning)

CommandLines ==
    {<<"k", "\n">>, <<"s", "t", "o", "p", "\n">>}

RECURSIVE WholeLines(_)
WholeLines(s) ==
    \/ s = <<>>
    \/ LET e == NextNL(s, 1)
       IN  e > 0 /\ SubSeq(s, 1, e) \in CommandLines /\ WholeLines(SubSeq(s, e + 1, Len(s)))

\* C10: what has reached a child's input channel is a sequence of complete
\* newline-terminated command lines of the callers, never a mix of the
\* characters of two commands.
C10_NoInterleavedLines ==
    \A k \in Children : WholeLines(chan[k])

\* two send_command() calls overlapped on one child: the line of the one
\* still flushing went into the pipe with the flush of the other
C10_Witness ==
    \E k \in Children, c \in Callers, d \in Callers :
        /\ c # d /\ op[c] = "send" /\ op[d] = "send"
        /\ pc[c] = "c_flush" /\ wrote[c] = << <<k, <<"k", "\n">>, "piped">> >>
        /\ pc[d] = "done" /\ ret[d] = 0 /\ wrote[d] = << <<k, <<"k", "\n">>, "piped">> >>
        /\ chan[k] = <<"k", "\n", "k", "\n">>

\* C11: a successful send_command(text) hands the stream exactly text when
\* text ends in a newline and text plus one newline when it does not, and
\* returns 0 only from its flush, which leaves nothing pending in the stream
\* of the instance's handle.
C11_SendWritesOneLine ==
    [][\A c \in Callers :
          /\ (op[c] \in {"send", "stop"} /\ pc[c] = "c_write" /\ pc'[c] # "c_write"
                 /\ restarts' = restarts) =>
                LET text == arg[c]
                    expected == IF text # <<>> /\ text[Len(text)] = "\n"
                                THEN text ELSE text \o <<"\n">>
                IN  /\ wrote'[c] = << <<proc, expected, "buffered">> >>
                    /\ buf'[proc] = buf[proc] \o expected
          /\ (op[c] \in {"send", "stop"} /\ pc[c] # "done" /\ pc'[c] = "done" /\ ret'[c] = 0) =>
                /\ pc[c] = "c_flush"
                /\ Len(wrote[c]) = 1
                /\ buf'[proc] = <<>>]_vars

\* one send_command() has returned 0 with its line in the pipe while another,
\* given text that already ends in a newline, has written exactly that text
C11_Witness ==
    \E c \in Callers, d \in Callers, k \in Children :
        /\ op[c] = "send" /\ pc[c] = "done" /\ ret[c] = 0
        /\ wrote[c] = << <<k, <<"k", "\n">>, "piped">> >>
        /\ op[d] = "send" /\ pc[d] = "c_flush" /\ arg[d] = <<"k", "\n">>
        /\ wrote[d] = << <<k, <<"k", "\n">>, "buffered">> >>

\* C12: is_running() returns, with an owned handle, true exactly when the
\* child behind the handle has not exited, whatever the process behind pid
\* does; with no handle and pid <= 0, false; with no handle and pid > 0,
\* false exactly when no process has that pid, and true otherwise, also
\* when the process belongs to someone else (permission denied).
C12_IsRunningResult ==
    [][\A c \in Callers :
          pc[c] = "r_check" /\ pc'[c] # "r_check" /\ restarts' = restarts =>
              LET result == (ret'[c] = 1)
                  exists == pid \in alive \/ (pid = MaxSpawn + 1 /\ ext \in {"ours", "foreign"})
              IN  /\ pc'[c] = "done" /\ ret'[c] \in {0, 1}
                  /\ proc # 0 => (result <=> proc \in alive)
                  /\ proc = 0 /\ pid <= 0 => ~result
                  /\ proc = 0 /\ pid > 0 => (~result <=> ~exists)
                  /\ proc = 0 /\ pid > 0 /\ ext = "foreign" => result]_vars

\* the probe was refused for a process of another user: reported as running
C12_Witness ==
    \E c \in Callers :
        /\ op[c] = "is_running" /\ pc[c] = "done" /\ ret[c] = 1
        /\ proc = NoProc /\ pid = ExtPid /\ ext = "foreign"

\* C13: after a restart of the manager, is_running() on the re-discovered
\* instance, which holds no handle, returns true while a child spawned
\* before the restart is still alive.
C13_SurvivorReportedRunning ==
    [][\A c \in Callers :
          (/\ pc[c] = "r_check" /\ pc'[c] = "done"
           /\ restarts > 0 /\ proc = 0
           /\ \E k \in 1..nprev : k \in alive) => ret'[c] = 1]_vars

\* C14: no step of stop(), send_command() or is_running() (through which
\* get_available_memory_gb looks at an instance) changes pid, the process
\* handle, logPath or the heap fields, whether the call succeeds or fails;
\* within a session pid, the handle and logPath change only on a step of
\* start().
C14_OnlyStartWritesFields ==
    [][restarts' = restarts =>
          /\ \A c \in Callers :
                (/\ op'[c] \in {"stop", "send", "is_running"}
                 /\ (pc'[c] # pc[c] \/ ret'[c] # ret[c] \/ wrote'[c] # wrote[c])) =>
                    UNCHANGED <<pid, proc, logPath, xmx, xms>>
          /\ <<pid, proc, logPath>>' # <<pid, proc, logPath>> =>
                \E c \in Callers : op[c] = "start" /\ pc[c] \in {"s_log", "s_spawn", "s_setpid"}
                                   /\ pc'[c] # pc[c]]_vars

\* a send_command() has failed on the broken input channel of an exited
\* child and the instance still has its pid and its handle
C14_Witness ==
    \E c \in Callers :
        /\ op[c] \in {"stop", "send"} /\ pc[c] = "done" /\ ret[c] = -1
        /\ wrote[c] # <<>> /\ wrote[c][1][3] = "buffered"
        /\ proc # NoProc /\ proc \notin alive /\ pid = proc

\* C15: the step on which the spawn fails ends start() with -1 and leaves
\* pid and the process handle as they were, as do the steps of that call
\* before it; an instance that was not running is still not running.
C15_SpawnFailureKeepsFields ==
    [][\A c \in Callers :
          /\ (op[c] = "start" /\ pc[c] = "s_spawn" /\ pc'[c] = "done") =>
                /\ ret'[c] = -1
                /\ UNCHANGED <<pid, proc>>
                /\ nspawn' = nspawn /\ alive' = alive
                /\ ~IsRunning => ~IsRunning'
          /\ (op[c] = "start" /\ pc[c] \in {"s_pre", "s_log"} /\ pc'[c] # pc[c]
                 /\ restarts' = restarts) =>
                /\ UNCHANGED <<pid, proc>>
                /\ ~IsRunning => ~IsRunning']_vars

\* a start() has failed at the spawn on an instance that records the pid
\* of a process that is gone: pid is still recorded, nothing runs
C15_Witness ==
    \E c \in Callers :
        /\ StartFailed(c) /\ ~BadHeap /\ ~NoArtifact /\ nfaults > 0 /\ nspawn = 0
        /\ logFiles # {} /\ proc = NoProc /\ pid = ExtPid /\ ext = "dead" /\ ~IsRunning

\* C16: logPath is set only by a start() that succeeds: on the step on which
\* start() returns -1, logPath stays as it is and is not the log file this
\* call opened (the call has not assigned it at an earlier step).
C16_LogPathSetOnlyOnSuccess ==
    [][\A c \in Callers :
          (op[c] = "start" /\ pc[c] # "done" /\ pc'[c] = "done" /\ ret'[c] = -1) =>
              /\ logPath' = logPath
              /\ ~(logFh[c] \notin {<<"nofh">>, <<"devnull">>} /\ logPath' = logFh[c])]_vars

\* C17: start() never opens for writing a log file that already exists, so
\* the log of an earlier run is neither truncated nor written into by a
\* later one, also when both start within the same clock second.
C17_LogNeverOverwritten ==
    [][\A c \in Callers :
          (op[c] = "start" /\ pc[c] = "s_log" /\ pc'[c] = "s_spawn" /\ logFh'[c] # <<"devnull">>) =>
              logFh'[c] \notin logFiles]_vars

\* C18: once is_running() has found the child behind the handle exited, the
\* manager holds no more open input channels than there are runs alive.
C18_HandlesReleased ==
    [][\A c \in Callers :
          (pc[c] = "r_check" /\ pc'[c] = "done" /\ ret'[c] = 0 /\ proc # 0) =>
              Cardinality(HeldChannels') <= Cardinality(alive')]_vars

\* The heap of the running instances, summed over the set of them.
RECURSIVE SumXmx(_)
SumXmx(T) ==
    IF T = {} THEN 0
    ELSE LET n == CHOOSE m \in T : TRUE IN servers[n].xmx + SumXmx(T \ {n})
RunningNames == {n \in Names : servers[n].up}

C20_StartRechecksAtClick ==
    [][(nevents' = nevents + 1 /\ last'.msg \in {"starting", "failed"}) =>
          LET view == views[last'.who]
              raw == 32 - 6 - SumXmx(RunningNames)
          IN  /\ view.selected_xmx <= (IF raw > 0 THEN raw ELSE 0)
              /\ \A n \in Names \ {view.selected_server_name} : servers'[n] = servers[n]]_vars

\* a click was refused although the menu, rendered before another server
\* was started, still offered the selected xmx
C20_Witness ==
    /\ last.msg = "not_enough"
    /\ views[last.who].open
    /\ views[last.who].selected_xmx <= views[last.who].available_gb
    /\ views[last.who].selected_xmx > last.val
    /\ last.val = 32 - 6 - SumXmx(RunningNames)


\* ---- discovery and the resolver: properties -----------------------------

\* C21: whatever the host does, a public operation ends with a result, never
\* with an exception that reaches its caller.
C21_NoExceptionPropagates == uout.kind # "raise"

\* C22: discover on a root that is missing, or that is a directory which
\* cannot be listed, returns the empty list.
C22_BadRootGivesEmptyList ==
    (uin.op = "get_servers" /\ uout # NoOutput /\ uin.root.kind \in {"missing", "unreadable"})
        => uout = [kind |-> "return", val |-> <<>>]

\* C23: discover returns one instance per direct subdirectory and none for a
\* plain file, each with init heap 2, max heap 4, pid 0 and no handle, in
\* case-insensitive name order, and the same list whatever order the
\* directory was enumerated in.
SubdirNames(entries) == {e.name : e \in {x \in Range(entries) : x.dir}}
C23_DiscoverDeterministic ==
    (uin.op = "get_servers" /\ uout # NoOutput /\ uin.root.kind = "dir")
        => /\ uout.kind = "return"
           /\ Len(uout.val) = Cardinality(SubdirNames(uin.root.entries))
           /\ {s.name : s \in Range(uout.val)} = SubdirNames(uin.root.entries)
           /\ \A i \in 1..Len(uout.val) :
                /\ uout.val[i].xms = 2 /\ uout.val[i].xmx = 4
                /\ uout.val[i].pid = 0 /\ uout.val[i].proc = NoProc
           /\ \A i \in 1..(Len(uout.val) - 1) :
                ~StrLess(Lower(uout.val[i + 1].name), Lower(uout.val[i].name))
           /\ \A l \in Listings :
                Range(l) = Range(uin.root.entries)
                    => get_servers([kind |-> "dir", entries |-> l]) = uout

\* C24: detection tries (1) the versions/ subdirectories, (2) the archive
\* names of the root, (3) the version-named metadata files of the root,
\* (4) the banner in logs/latest.log, in this order, and the first source
\* that holds a version decides; a later source decides only when no earlier
\* one holds any.
Items(f) == IF f.st = "ok" THEN f.items ELSE <<>>
Least(S) == CHOOSE i \in S : \A j \in S : i <= j
SameVersion(a, b) == a # None /\ b # None /\ _parse_version_num(a) = _parse_version_num(b)
InnerHits(e) == {i \in 1..Len(Items(e.inner)) : Items(e.inner)[i] # NoTok}
EntryToken(e) == IF e.tok # NoTok THEN e.tok ELSE Items(e.inner)[Least(InnerHits(e))]
C24_FirstMatchingHeuristicWins ==
    (uin.op = "detect_mc_version" /\ uout # NoOutput /\ uin.inst.isdir)
        => LET ve == Items(uin.inst.versions)
               rf == Items(uin.inst.root)
               lg == Items(uin.inst.log)
               cannotList(e) == e.dir /\ e.tok = NoTok /\ e.inner.st = "unreadable"
               manifests == {i \in 1..Len(ve) :
                                /\ ve[i].dir
                                /\ ve[i].tok # NoTok \/ InnerHits(ve[i]) # {}
                                /\ \A j \in 1..(i - 1) : ~cannotList(ve[j])}
               archives == {i \in 1..Len(rf) :
                                /\ rf[i].ext = "jar" /\ rf[i].tok # NoTok
                                /\ rf[i].pat \in {"minecraft_server", "forge", "paper", "fabric"}}
               metadata == {i \in 1..Len(rf) : rf[i].ext = "json" /\ rf[i].tok # NoTok}
               banners == {i \in 1..Len(lg) : lg[i] # NoTok}
           IN  IF manifests # {} THEN SameVersion(uout.val, EntryToken(ve[Least(manifests)]))
               ELSE IF archives # {} THEN SameVersion(uout.val, rf[Least(archives)].tok)
               ELSE IF metadata # {} THEN SameVersion(uout.val, rf[Least(metadata)].tok)
               ELSE IF banners # {} THEN SameVersion(uout.val, lg[Least(banners)])
               ELSE uout.val = None
\* a folder of versions/ named for 1.20 and a root archive named for 1.19.2
\* give 1.20
C24_Witness ==
    /\ uin.op = "detect_mc_version" /\ uout # NoOutput
    /\ uout.val = <<1, 20>>
    /\ uin.inst.versions.st = "ok" /\ uin.inst.root.st = "ok"
    /\ \E i \in 1..Len(uin.inst.versions.items) :
            uin.inst.versions.items[i].dir /\ uin.inst.versions.items[i].tok = <<1, 20, 0>>
    /\ \E i \in 1..Len(uin.inst.root.items) :
            uin.inst.root.items[i].pat = "minecraft_server" /\ uin.inst.root.items[i].tok = <<1, 19, 2>>

\* C25: the required runtime major is 8 for minor <= 16, 16 for minor 17,
\* 17 for minor 18, 19 and for 20 up to patch 4, 21 for 20 from patch 5 and
\* for minor >= 21; a string without a version token gives 17.
C25_RequiredMajor ==
    (uin.op = "java_major_for_mc" /\ uout # NoOutput)
        => LET v == uin.ver
               m == v[2]
               q == IF Len(v) = 3 THEN v[3] ELSE 0
           IN  uout.val =
                   IF v = NoTok THEN 17
                   ELSE IF m <= 16 THEN 8
                   ELSE IF m = 17 THEN 16
                   ELSE IF (18 <= m /\ m <= 19) \/ (m = 20 /\ q <= 4) THEN 17
                   ELSE 21
C25_Witness ==
    /\ uin.op = "java_major_for_mc" /\ uin.ver = <<1, 20, 5>>
    /\ uout = [kind |-> "return", val |-> 21]

\* C26: whichever heuristic matched, the detected version string is in
\* normal form: it carries a patch number only when the patch is not 0.
C26_DetectedVersionNormalized ==
    (uin.op = "detect_mc_version" /\ uout # NoOutput /\ uout.val # None)
        => (Len(uout.val) = 2 \/ uout.val[3] # 0)

\* C27: discovery for the major M returns the first hit of: the environment
\* override for M, the first scanned runtime whose determined major is M,
\* the runtime on the search path when its banner gives M; nothing when no
\* step hits.  A binary from the scan or the search path has determined
\* major M.
C27_DiscoveryOrder ==
    (uin.op = "find_java_for_major" /\ uout # NoOutput)
        => LET M == uin.major
               h == uin.host
               exe == uout.val
               matching == {i \in 1..Len(h.homes) : HomeMajor(h.homes[i], M) = M}
           IN  /\ h.direct = "file" => exe.via = "JAVA_major"
               /\ (h.direct # "file" /\ h.envhome = "exe") => exe.via = "JAVA_HOME_major"
               /\ (h.direct # "file" /\ h.envhome # "exe" /\ matching # {})
                    => exe = [via |-> "scan", at |-> Least(matching)]
               /\ (h.direct # "file" /\ h.envhome # "exe" /\ matching = {})
                    => IF BannerMajor(h.path, M) = M THEN exe.via = "path" ELSE exe.via = "none"
               /\ exe.via = "scan" => HomeMajor(h.homes[exe.at], M) = M
               /\ exe.via = "path" => BannerMajor(h.path, M) = M
\* the second scanned runtime is returned: no override, the first runtime
\* has another major
C27_Witness ==
    /\ uin.op = "find_java_for_major" /\ uout # NoOutput
    /\ uout.val = [via |-> "scan", at |-> 2]
    /\ uin.host.path # NoVersion
    /\ HomeMajor(uin.host.homes[1], uin.major) \notin {NoMajor, uin.major}

\* C28: rewriting the heap-arguments file twice with the same heap values
\* gives the same file as rewriting it once; the file then holds exactly
\* one max-heap line and one init-heap line, and every other line of the
\* original, unchanged and in the original order.
OtherLines(lines) == SelectSeq(lines, LAMBDA l : l[1] \notin {"Xmx", "Xms"})
CountLines(lines, key) == Cardinality({i \in 1..Len(lines) : lines[i][1] = key})
C28_RewriteIdempotent ==
    (uin.op = "rewrite_jvm_args" /\ uout # NoOutput)
        => /\ uout.val.twice = uout.val.once
           /\ CountLines(uout.val.once, "Xmx") = 1
           /\ CountLines(uout.val.once, "Xms") = 1
           /\ \E i, j \in 1..Len(uout.val.once) :
                /\ uout.val.once[i] = <<"Xmx", uin.heap[1]>>
                /\ uout.val.once[j] = <<"Xms", uin.heap[2]>>
           /\ OtherLines(uout.val.once) = OtherLines(uin.file.lines)
\* a file with two other lines around old heap lines has been rewritten
C28_Witness ==
    /\ uin.op = "rewrite_jvm_args" /\ uout # NoOutput
    /\ uin.file.lines = <<<<"o", 1, "indent">>, <<"Xmx", 2, "indent">>, <<"o", 0>>>>
    /\ uout.val.twice = <<<<"o", 1, "indent">>, <<"o", 0>>, <<"Xmx", 2>>, <<"Xms", 1>>>>

\* C29: when the version cannot be detected or no matching runtime is found,
\* start() does not fail for that: with valid heap settings and a runnable
\* artifact it goes on to the log and the spawn, with the resolved binary or,
\* without one, with the unqualified runtime name.
C29_FallbackToDefaultRuntime ==
    [][\A c \in Callers :
        (/\ pc[c] = "s_pre" /\ pc'[c] # "s_pre" /\ restarts' = restarts
         /\ ~(xmx <= 0 \/ xms <= 0 \/ xmx < xms)
         /\ (hasJar \/ scripts # {}))
            => /\ pc'[c] = "s_log"
               /\ javaExe'[c] # [via |-> "none", at |-> 0]
               /\ javaExe'[c] \in {[via |-> "path", at |-> 0]} \cup {r[1] : r \in ResolveResults}]_vars
\* a start() that fell back to the unqualified name is about to spawn
C29_Witness ==
    \E c \in Callers : pc[c] = "s_spawn" /\ javaExe[c] = [via |-> "path", at |-> 0]

C34_StartOnlyWhenStopped ==
    [][\A u \in Users :
          (nevents' = nevents + 1 /\ last'.who = u /\ last'.msg \in {"starting", "failed"})
             => ~servers[views[u].selected_server_name].up]_vars

RECURSIVE SumSeq(_)
SumSeq(s) == IF s = <<>> THEN 0 ELSE Head(s) + SumSeq(Tail(s))
RECURSIVE LiveHeap(_)
LiveHeap(i) ==
    IF i > Len(ServerNames) THEN 0
    ELSE SumSeq(servers[ServerNames[i]].kids) + LiveHeap(i + 1)

\* C35: the max heaps that the live children were launched with never add
\* up to more than the host's memory less the reserve.
C35_LiveHeapWithinBudget == LiveHeap(1) <= total_gb - default_reserve_gb

\* C39: the user is told that the instance is stopping only when stop()
\* returned success.
C39_StoppingOnlyOnSuccess == last.msg = "stopping" => last.arg = 0

\* ---- launch artifact, restart after exit, stale handle ----------------

C32_ConstructedHeapValid ==
    (uin.op = "__post_init__" /\ uout # NoOutput)
        => /\ uout.kind = "return"
           /\ \/ uout.val = <<-1, -1>>
              \/ uout.val[1] > 0 /\ uout.val[2] > 0 /\ uout.val[1] >= uout.val[2]

\* ---- the recorded pid and the process handle ---------------------------

InSetPid == \E c \in Callers : pc[c] = "s_setpid"
C40_DirnameMajor ==
    (uin.op = "_major_from_dirname" /\ uout # NoOutput) =>
        LET d == uin.home.dirname
        IN  /\ uout.kind = "return"
            /\ uout.val = IF d = NoVersion THEN NoMajor
                          ELSE IF Len(d) = 1 THEN d[1]
                          ELSE IF d = <<1, 8, 0>> THEN 8
                          ELSE NoMajor

\* ---- /clean mob --------------------------------------------------------

AllowedPieces == {"player", "Player", "minecraft", "zombie", ":"}
IsPlayer(t) ==
    \/ Len(t) = 1 /\ t[1] \in {"player", "Player"}
    \/ Len(t) = 3 /\ t[1] = "minecraft" /\ t[2] = ":" /\ t[3] \in {"player", "Player"}
Acceptable(t) == t # <<>> /\ (\A i \in DOMAIN t : t[i] \in AllowedPieces) /\ ~IsPlayer(t)
Trimmed(t) ==
    LET idx == {i \in DOMAIN t : t[i] # " "}
        lo == CHOOSE i \in idx : \A j \in idx : i <= j
        hi == CHOOSE i \in idx : \A j \in idx : i >= j
    IN  IF idx = {} THEN <<>> ELSE SubSeq(t, lo, hi)

\* C38: Execute sends the kill command only when the entered mob id is
\* non-empty, has no whitespace and no "@", consists of allowed characters
\* only and is not "player" or "minecraft:player" in any letter case; for
\* every other input it passes nothing to the server.
C38_KillOnlyForValidMob ==
    (uin.op = "execute" /\ uout # NoOutput) =>
        ((uin.up /\ uout.val.calls # <<>>) => Acceptable(uin.entered))

\* C38, amended: the same of the entered mob id once leading and trailing
\* whitespace is removed; with a server selected such an id is passed on in
\* the kill command, followed by the item cleanup, and nothing else is.
C38_KillOnlyForValidTrimmedMob ==
    (uin.op = "execute" /\ uout # NoOutput) =>
        /\ uout.kind = "return"
        /\ uout.val.calls =
              IF uin.selected /\ Acceptable(Trimmed(uin.entered))
              THEN <<(<<"kill", Trimmed(uin.entered)>>), (<<"kill", <<"item">>>>)>>
              ELSE <<>>
C38_Witness ==
    /\ uin.op = "execute" /\ uout # NoOutput
    /\ uin.entered = <<"minecraft", ":", "zombie">>
    /\ uout.val.calls # <<>> /\ uout.val.msg = "sent"
====
